---- MODULE Spec2Model ----
(***************************************************************************)
(* Client-side tunnel orchestration of wstunnel (src/tunnel/client.rs):    *)
(* connect_to_server, run_tunnel (forward loop) and run_reverse_tunnel     *)
(* (reverse loop), together with the duplex relay they start.              *)
(***************************************************************************)
EXTENDS Integers, Sequences, FiniteSets, TLC

\* ------------------------------------------------------------------ bounds
\* Items the local listener yields before its stream ends.
MaxAccept == 2
\* Iterations of the reverse loop.
MaxIter == 3
\* Sessions the reverse loop spawns.
MaxSess == 2

\* ------------------------------------------------------- program constants
\* tokio::time::Duration::from_secs(1)
BackoffSecs == 1

\* --------------------------------------------------------------- data model
Schemes == {"Ws", "Wss", "Http", "Https"}

None == [some |-> FALSE]
Some(x) == [some |-> TRUE, val |-> x]

\* url::Host values
Domain(name) == [kind |-> "Domain", name |-> name]
HostErr == [kind |-> "Err"]

\* The RemoteAddr run_reverse_tunnel is called with.
StaticRemote == [protocol |-> "tcp", host |-> Domain(<<"s">>), port |-> 443]

\* Code points url::Host::parse rejects in a domain.
ForbiddenHostCodePoints == {" ", "/", "#"}

ToAsciiLower(ch) ==
    CASE ch = "E" -> "e"
      [] ch = "X" -> "x"
      [] ch = "C" -> "c"
      [] ch = "O" -> "o"
      [] ch = "M" -> "m"
      [] OTHER -> ch

\* Host::parse(&str): an empty host and a forbidden code point are errors; a
\* domain is returned in its ASCII lower-case form.
HostParse(r) ==
    IF Len(r) = 0 \/ \E i \in 1..Len(r) : r[i] \in ForbiddenHostCodePoints
    THEN HostErr
    ELSE Domain([i \in 1..Len(r) |-> ToAsciiLower(r[i])])

\* The key jsonwebtoken::decode verifies with (JWT_DECODE).
DecodeKey == "server-key"

\* JwtTunnelConfig payloads a handshake response may carry, each signed with
\* some key.  r is the host as a string of characters.
Tokens ==
    { [sig |-> "server-key", p |-> "tcp", r |-> <<"e", "x", ".", "c", "o", "m">>, rp |-> 8080],
      [sig |-> "server-key", p |-> "udp", r |-> <<"E", "X", ".", "C", "O", "M">>, rp |-> 53],
      [sig |-> "server-key", p |-> "tcp", r |-> <<"e", "x", " ", "c", "o", "m">>, rp |-> 8080],
      [sig |-> "other-key",  p |-> "tcp", r |-> <<"e", "v", ".", "i", "l">>, rp |-> 22] }

\* COOKIE header of the handshake response: absent, not a visible-ASCII
\* string, a string that is no JWT, or a JWT.
Cookies ==
    { [kind |-> "absent"], [kind |-> "opaque"], [kind |-> "garbage"] }
    \cup { [kind |-> "jwt", token |-> t] : t \in Tokens }

\* No handshake response is held.
NoResponse == [kind |-> "none"]

\* response.headers.get(COOKIE).and_then(|h| h.to_str().ok())
CookieStr(c) == IF c.kind \in {"absent", "opaque"} THEN None ELSE Some(c)

\* jsonwebtoken::decode(h, decode_key, validation).ok()
JwtDecode(h) ==
    IF h.kind = "jwt" /\ h.token.sig = DecodeKey THEN Some(h.token) ELSE None

\* A claim conversion that keeps the configured port.
ClaimToRemoteAddr_KeepsConfiguredPort(claims) ==
    [protocol |-> claims.p,
     host |-> IF HostParse(claims.r) = HostErr THEN Domain(<<>>) ELSE HostParse(claims.r),
     port |-> StaticRemote.port]

\* .map(|jwt| RemoteAddr { protocol, host: Host::parse(..).unwrap_or_else(..), port })
ClaimToRemoteAddr(claims) ==
    [protocol |-> claims.p,
     host |-> IF HostParse(claims.r) = HostErr THEN Domain(<<>>) ELSE HostParse(claims.r),
     port |-> claims.rp]

\* A decode that falls back to the configured RemoteAddr when no claim verifies.
DecodeRemote_FallsBack(cookie) ==
    IF ~CookieStr(cookie).some THEN Some(StaticRemote)
    ELSE IF ~JwtDecode(CookieStr(cookie).val).some THEN Some(StaticRemote)
    ELSE Some(ClaimToRemoteAddr(JwtDecode(CookieStr(cookie).val).val))

\* A decode that yields no destination when the claim's host does not parse.
DecodeRemote_RejectsBadHost(cookie) ==
    IF ~CookieStr(cookie).some THEN None
    ELSE IF ~JwtDecode(CookieStr(cookie).val).some THEN None
    ELSE IF HostParse(JwtDecode(CookieStr(cookie).val).val.r) = HostErr THEN None
    ELSE Some(ClaimToRemoteAddr(JwtDecode(CookieStr(cookie).val).val))

\* let remote = response.headers.get(COOKIE)...map(..): Option<RemoteAddr>
DecodeRemote(cookie) ==
    IF ~CookieStr(cookie).some THEN None
    ELSE IF ~JwtDecode(CookieStr(cookie).val).some THEN None
    ELSE Some(ClaimToRemoteAddr(JwtDecode(CookieStr(cookie).val).val))

\* A client that reaches every server over websocket, whatever the scheme.
TransportFamily_AlwaysWebsocket(s) == "Websocket"

\* TunnelReader/TunnelWriter variant the scheme's arm builds.
TransportFamily(s) == IF s \in {"Ws", "Wss"} THEN "Websocket" ELSE "Http2"

\* The RemoteAddr a listener item carries.
ListenerRemote == [protocol |-> "tcp", host |-> Domain(<<"l">>), port |-> 80]

\* No keepalive handed to propagate_local_to_remote.
PingFrequency_None == None

\* Some(ping_frequency): the keepalive handed to propagate_local_to_remote.
PingFrequency == Some("websocket_ping_frequency")

\* ------------------------------------------------------------------- state
VARIABLES
    role,       \* the entry point the client runs: "forward" | "reverse"
    scheme,     \* client_cfg.remote_addr.scheme()
    nextId,     \* the source of Uuid::now_v7()
    ids,        \* request ids generated so far, in order, with the attempt
    conns,      \* connections: forward tasks and reverse sessions
    fpc,        \* run_tunnel: "accepting" | "done"
    accepted,   \* items incoming_cnx has yielded so far
    ended,      \* incoming_cnx has yielded None
    rpc,        \* run_reverse_tunnel: "init" | "connecting" | "sleeping" | "local_connect"
    iter,       \* iterations of the reverse loop begun
    reqId,      \* request_id of the current reverse iteration
    remaining,  \* seconds the backoff sleep still has to run
    failures,   \* transport connector failures of the reverse loop
    sleeps,     \* backoff sleeps the reverse loop has completed
    slept,      \* seconds the reverse loop has spent in backoff sleeps
    response,   \* COOKIE header of the handshake response the iteration got
    remote,     \* the iteration's `remote`: Option<RemoteAddr>
    cur,        \* index in conns of the session the reverse loop holds, or 0
    calls,      \* calls made of each transport connector
    connectDest \* RemoteAddr the reverse loop gave its last transport connector call

vars == <<role, scheme, nextId, ids, conns, fpc, accepted, ended,
          rpc, iter, reqId, remaining, failures, sleeps, slept,
          response, remote, cur, calls, connectDest>>

fwdVars == <<fpc, accepted, ended>>
revVars == <<rpc, iter, reqId, remaining, failures, sleeps, slept,
          response, remote, cur>>

ConnIds == 1..Len(conns)

\* Uuid::now_v7(): time-ordered, unique within the process.
UuidNowV7 == nextId

\* A connection as it is created; the fields are set by the step that owns them.
NewConn(mode, id, origin, dest) ==
    [mode |-> mode,         \* "fwd" | "rev"
     id |-> id,             \* request_id
     origin |-> origin,     \* index of the accepted item / reverse iteration
     dest |-> dest,         \* RemoteAddr given to the transport connector
     pc |-> "spawned",      \* position of the task that owns the connection
     connector |-> "none",  \* transport connector called: Websocket | Http2
     family |-> "none",     \* TunnelReader/TunnelWriter variant
     local |-> "none",      \* local duplex stream: none | open | closed
     ws |-> "none",         \* transport stream: none | open | closed
     chans |-> 0,           \* oneshot channels created
     tx |-> "none",         \* holder of close_tx
     rx |-> "none",         \* holder of close_rx
     fired |-> 0,           \* times close_tx fired
     l2r |-> "none",        \* propagate_local_to_remote: none | run | done
     r2l |-> "none",        \* propagate_remote_to_local: none | run | done
     nL2R |-> 0,            \* local->remote directions started
     nR2L |-> 0,            \* remote->local directions started
     lin |-> 0,             \* 1 when bytes of the local peer wait to be read
     wsr |-> "none",        \* holder of the transport reader
     wsw |-> "none",        \* holder of the transport writer
     lrd |-> "none",        \* holder of the local read half
     lwr |-> "none"]        \* holder of the local write half

Init ==
    /\ role \in {"forward", "reverse"}
    /\ scheme \in Schemes
    /\ nextId = 1
    /\ ids = <<>>
    /\ conns = <<>>
    /\ fpc = "accepting"
    /\ accepted = <<>>
    /\ ended = FALSE
    /\ rpc = "init"
    /\ iter = 0
    /\ reqId = 0
    /\ remaining = 0
    /\ failures = 0
    /\ sleeps = 0
    /\ slept = 0
    /\ response = NoResponse
    /\ remote = None
    /\ cur = 0
    /\ calls = [Websocket |-> 0, Http2 |-> 0]
    /\ connectDest = None

\* ------------------------------------------------------------ duplex relay
\* propagate_local_to_remote ends: close_tx fires as the direction is left.
L2RFinish(k) ==
    [k EXCEPT !.l2r = "done", !.fired = @ + 1, !.tx = "none",
              !.wsw = "none", !.lrd = "none"]

\* One turn of propagate_local_to_remote: the bytes that wait are read and
\* written to the transport writer; with nothing waiting a closed local stream
\* ends the direction; with an idle stream the keepalive ping is written.  A
\* write on a closed transport is an I/O error and ends the direction.
L2RNext(k) ==
    IF k.lin > 0
    THEN IF k.ws = "open"
         THEN [k EXCEPT !.lin = 0]
         ELSE L2RFinish([k EXCEPT !.lin = 0])
    ELSE IF k.local = "closed"
         THEN L2RFinish(k)
         ELSE IF PingFrequency.some /\ k.ws = "closed" THEN L2RFinish(k) ELSE k

\* The await of propagate_remote_to_local(..) is over: the task that awaited
\* it returns.
Returned(k) == [k EXCEPT !.pc = "returned"]

\* propagate_remote_to_local ends, and the task that awaits it goes on.
R2LFinish(k) ==
    Returned([k EXCEPT !.r2l = "done", !.rx = "none", !.wsr = "none", !.lwr = "none"])

\* One turn of propagate_remote_to_local: the transport reader at EOF or in
\* error ends the direction, and so does the close signal once it has fired.
R2LNext(k) ==
    IF k.ws = "closed" THEN R2LFinish(k)
    ELSE IF k.fired > 0 THEN R2LFinish(k)
    ELSE k

Relaying(c) == c \in ConnIds /\ (conns[c].l2r = "run" \/ conns[c].r2l = "run")

\* The local peer sends bytes.
LocalSend(c) ==
    /\ c \in ConnIds
    /\ conns[c].l2r = "run" /\ conns[c].local = "open" /\ conns[c].lin = 0
    /\ conns' = [conns EXCEPT ![c].lin = 1]
    /\ UNCHANGED <<role, scheme, calls, connectDest, nextId, ids, fwdVars, revVars>>

\* The local stream reaches EOF or an I/O error.
LocalClose(c) ==
    /\ Relaying(c) /\ conns[c].local = "open"
    /\ conns' = [conns EXCEPT ![c].local = "closed"]
    /\ UNCHANGED <<role, scheme, calls, connectDest, nextId, ids, fwdVars, revVars>>

\* The transport stream reaches EOF or an I/O error.
WsClose(c) ==
    /\ Relaying(c) /\ conns[c].ws = "open"
    /\ conns' = [conns EXCEPT ![c].ws = "closed"]
    /\ UNCHANGED <<role, scheme, calls, connectDest, nextId, ids, fwdVars, revVars>>

L2RStep(c) ==
    /\ c \in ConnIds
    /\ conns[c].l2r = "run"
    /\ L2RNext(conns[c]) # conns[c]
    /\ conns' = [conns EXCEPT ![c] = L2RNext(@)]
    /\ UNCHANGED <<role, scheme, calls, connectDest, nextId, ids, fwdVars, revVars>>

R2LStep(c) ==
    /\ c \in ConnIds
    /\ conns[c].r2l = "run"
    /\ R2LNext(conns[c]) # conns[c]
    /\ conns' = [conns EXCEPT ![c] = R2LNext(@)]
    /\ UNCHANGED <<role, scheme, calls, connectDest, nextId, ids, fwdVars, revVars>>

\* The transport delivers data while the local stream is closed: the write to
\* the local stream is an I/O error, which ends remote->local.
R2LWriteError(c) ==
    /\ c \in ConnIds
    /\ conns[c].r2l = "run" /\ conns[c].ws = "open" /\ conns[c].local = "closed"
    /\ conns' = [conns EXCEPT ![c] = R2LFinish(@)]
    /\ UNCHANGED <<role, scheme, calls, connectDest, nextId, ids, fwdVars, revVars>>

\* -------------------------------------------------------- connect_to_server
\* A relay start that spawns both directions and awaits neither.
StartRelay_AwaitsNothing(k) ==
    [k EXCEPT !.chans = @ + 1, !.tx = "l2r", !.rx = "r2l",
              !.l2r = "run", !.nL2R = @ + 1,
              !.r2l = "run", !.nR2L = @ + 1,
              !.pc = "returned"]

\* A relay start that hands each direction the other's end of the channel.
StartRelay_SwapsEnds(k) ==
    [k EXCEPT !.chans = @ + 1, !.tx = "r2l", !.rx = "l2r",
              !.l2r = "run", !.nL2R = @ + 1,
              !.r2l = "run", !.nR2L = @ + 1,
              !.pc = "relaying"]

\* A relay start that never spawns propagate_local_to_remote.
StartRelay_NoLocalToRemote(k) ==
    [k EXCEPT !.chans = @ + 1, !.rx = "r2l",
              !.r2l = "run", !.nR2L = @ + 1,
              !.pc = "relaying"]

\* oneshot::channel(), tokio::spawn(propagate_local_to_remote(..)) and the
\* await of propagate_remote_to_local(..).
StartRelay(k) ==
    [k EXCEPT !.chans = @ + 1, !.tx = "l2r", !.rx = "r2l",
              !.l2r = "run", !.nL2R = @ + 1, !.lrd = "l2r", !.wsw = "l2r",
              !.r2l = "run", !.nR2L = @ + 1, !.lwr = "r2l", !.wsr = "r2l",
              !.pc = "relaying"]

\* The scheme's connector returned Ok((r, w, response)).
Connected(k) ==
    [k EXCEPT !.ws = "open", !.family = TransportFamily(scheme),
              !.wsr = "task", !.wsw = "task"]

\* The spawned task is polled: connect_to_server calls the scheme's connector.
FwdTaskStart(c) ==
    /\ c \in ConnIds
    /\ conns[c].mode = "fwd" /\ conns[c].pc = "spawned"
    /\ conns' = [conns EXCEPT ![c].pc = "connecting",
                              ![c].connector = TransportFamily(scheme)]
    /\ calls' = [calls EXCEPT ![TransportFamily(scheme)] = @ + 1]
    /\ UNCHANGED <<role, scheme, connectDest, nextId, ids, fwdVars, revVars>>

FwdConnectOk(c) ==
    /\ c \in ConnIds
    /\ conns[c].mode = "fwd" /\ conns[c].pc = "connecting"
    /\ conns' = [conns EXCEPT ![c] = StartRelay(Connected(@))]
    /\ UNCHANGED <<role, scheme, calls, connectDest, nextId, ids, fwdVars, revVars>>

\* A connector failure that takes down every transport connect in progress.
FwdConnectFail_FailsAll(c) ==
    /\ c \in ConnIds
    /\ conns[c].mode = "fwd" /\ conns[c].pc = "connecting"
    /\ conns' = [d \in ConnIds |->
                    IF conns[d].pc = "connecting"
                    THEN [conns[d] EXCEPT !.pc = "failed", !.local = "closed",
                                          !.lrd = "none", !.lwr = "none"]
                    ELSE conns[d]]
    /\ UNCHANGED <<role, scheme, calls, connectDest, nextId, ids, fwdVars, revVars>>

\* The connector returned Err: `?` returns it, the task logs it and ends; the
\* local stream is dropped.
FwdConnectFail(c) ==
    /\ c \in ConnIds
    /\ conns[c].mode = "fwd" /\ conns[c].pc = "connecting"
    /\ conns' = [conns EXCEPT ![c].pc = "failed", ![c].local = "closed",
                              ![c].lrd = "none", ![c].lwr = "none"]
    /\ UNCHANGED <<role, scheme, calls, connectDest, nextId, ids, fwdVars, revVars>>

\* --------------------------------------------------------------- run_tunnel
\* An accept error that leaves the loop.
AcceptErr_Breaks ==
    /\ fpc = "accepting" /\ Len(accepted) < MaxAccept
    /\ accepted' = Append(accepted, "Err")
    /\ fpc' = "done"
    /\ UNCHANGED <<role, scheme, calls, connectDest, nextId, ids, conns, ended, revVars>>

\* incoming_cnx.next() yields Some(Err(_)): log and continue.
AcceptErr ==
    /\ fpc = "accepting" /\ Len(accepted) < MaxAccept
    /\ accepted' = Append(accepted, "Err")
    /\ UNCHANGED <<role, scheme, calls, connectDest, nextId, ids, conns, fpc, ended, revVars>>

\* A loop that awaits the tunnel of the previous item before it takes the next.
AcceptOk_AwaitsPrevious ==
    /\ fpc = "accepting" /\ Len(accepted) < MaxAccept
    /\ \A c \in ConnIds : conns[c].pc \in {"failed", "returned"}
    /\ accepted' = Append(accepted, "Ok")
    /\ nextId' = nextId + 1
    /\ ids' = Append(ids, UuidNowV7)
    /\ conns' = Append(conns,
          [NewConn("fwd", UuidNowV7, Len(accepted) + 1, ListenerRemote)
              EXCEPT !.local = "open", !.lrd = "task", !.lwr = "task"])
    /\ UNCHANGED <<role, scheme, calls, connectDest, fpc, ended, revVars>>

\* incoming_cnx.next() yields Some(Ok(_)): a request id and a spawned task.
AcceptOk ==
    /\ fpc = "accepting" /\ Len(accepted) < MaxAccept
    /\ accepted' = Append(accepted, "Ok")
    /\ nextId' = nextId + 1
    /\ ids' = Append(ids, UuidNowV7)
    /\ conns' = Append(conns,
          [NewConn("fwd", UuidNowV7, Len(accepted) + 1, ListenerRemote)
              EXCEPT !.local = "open", !.lrd = "task", !.lwr = "task"])
    /\ UNCHANGED <<role, scheme, calls, connectDest, fpc, ended, revVars>>

\* A loop that joins the tasks it dispatched before it returns.
AcceptEnd_JoinsTasks ==
    /\ fpc = "accepting"
    /\ ended' = TRUE
    /\ fpc' = (IF \A c \in ConnIds : conns[c].pc \in {"failed", "returned"}
               THEN "done" ELSE "joining")
    /\ UNCHANGED <<role, scheme, calls, connectDest, nextId, ids, conns, accepted, revVars>>

\* incoming_cnx.next() yields None: the loop ends and run_tunnel returns Ok(()).
AcceptEnd ==
    /\ fpc = "accepting"
    /\ ended' = TRUE
    /\ fpc' = "done"
    /\ UNCHANGED <<role, scheme, calls, connectDest, nextId, ids, conns, accepted, revVars>>

\* ------------------------------------------------------- run_reverse_tunnel
\* A loop head that overwrites its working RemoteAddr with the claim decoded
\* in the iteration before and connects the transport with it.
BeginIteration_UsesClaim ==
    IF iter < MaxIter
    THEN /\ iter' = iter + 1
         /\ reqId' = UuidNowV7
         /\ nextId' = nextId + 1
         /\ ids' = Append(ids, UuidNowV7)
         /\ calls' = [calls EXCEPT ![TransportFamily(scheme)] = @ + 1]
         /\ connectDest' = (IF remote.some THEN remote ELSE Some(StaticRemote))
         /\ rpc' = "connecting"
    ELSE /\ rpc' = "halt"
         /\ UNCHANGED <<iter, reqId, nextId, ids, calls, connectDest>>

\* A loop head that takes its request id once, before the loop.
BeginIteration_ReusesId ==
    IF iter < MaxIter
    THEN /\ iter' = iter + 1
         /\ reqId' = (IF iter = 0 THEN UuidNowV7 ELSE reqId)
         /\ nextId' = (IF iter = 0 THEN nextId + 1 ELSE nextId)
         /\ ids' = Append(ids, IF iter = 0 THEN UuidNowV7 ELSE reqId)
         /\ calls' = [calls EXCEPT ![TransportFamily(scheme)] = @ + 1]
         /\ connectDest' = Some(StaticRemote)
         /\ rpc' = "connecting"
    ELSE /\ rpc' = "halt"
         /\ UNCHANGED <<iter, reqId, nextId, ids, calls, connectDest>>

\* The head of `loop`: a request id, then the scheme's connector is called.
\* The loop stops where the model's bound on iterations is reached.
BeginIteration ==
    IF iter < MaxIter
    THEN /\ iter' = iter + 1
         /\ reqId' = UuidNowV7
         /\ nextId' = nextId + 1
         /\ ids' = Append(ids, UuidNowV7)
         /\ calls' = [calls EXCEPT ![TransportFamily(scheme)] = @ + 1]
         /\ connectDest' = Some(StaticRemote)
         /\ rpc' = "connecting"
    ELSE /\ rpc' = "halt"
         /\ UNCHANGED <<iter, reqId, nextId, ids, calls, connectDest>>

RevStart ==
    /\ rpc = "init"
    /\ BeginIteration
    /\ UNCHANGED <<role, scheme, conns, fwdVars, remaining, failures, sleeps, slept, response, remote, cur>>

\* A connector failure that retries at once.
RevConnectFail_NoSleep ==
    /\ rpc = "connecting"
    /\ failures' = failures + 1
    /\ BeginIteration
    /\ UNCHANGED <<role, scheme, conns, fwdVars, remaining, sleeps, slept, response, remote, cur>>

\* A connector failure that is propagated with `?`, as connect_to_server does.
RevConnectFail_Propagates ==
    /\ rpc = "connecting"
    /\ failures' = failures + 1
    /\ rpc' = "returned_err"
    /\ UNCHANGED <<role, scheme, calls, connectDest, nextId, ids, conns, fwdVars, iter, reqId, remaining, sleeps, slept, response, remote, cur>>

\* The connector returned Err: the error event, then the 1 s sleep begins.
RevConnectFail ==
    /\ rpc = "connecting"
    /\ failures' = failures + 1
    /\ remaining' = BackoffSecs
    /\ rpc' = "sleeping"
    /\ UNCHANGED <<role, scheme, calls, connectDest, nextId, ids, conns, fwdVars, iter, reqId, sleeps, slept, response, remote, cur>>

\* A second of the sleep passes.
Tick ==
    /\ rpc = "sleeping" /\ remaining > 0
    /\ remaining' = remaining - 1
    /\ slept' = slept + 1
    /\ UNCHANGED <<role, scheme, calls, connectDest, nextId, ids, conns, fwdVars, rpc, iter, reqId, failures, sleeps, response, remote, cur>>

\* The sleep has elapsed: `continue`.
RevWake ==
    /\ rpc = "sleeping" /\ remaining = 0
    /\ sleeps' = sleeps + 1
    /\ BeginIteration
    /\ UNCHANGED <<role, scheme, conns, fwdVars, remaining, failures, slept, response, remote, cur>>

\* A loop that spawns the relay on the transport connect alone, without
\* calling the local connector.
RevConnectOk_SkipsLocalConnect(cookie) ==
    /\ rpc = "connecting"
    /\ Cardinality({c \in ConnIds : conns[c].nR2L > 0 \/ conns[c].pc = "spawned"}) < MaxSess
    /\ conns' = Append(conns,
          [Connected(NewConn("rev", reqId, iter, StaticRemote))
              EXCEPT !.pc = "spawned",
                     !.connector = TransportFamily(scheme),
                     !.chans = 1, !.tx = "tunnel", !.rx = "tunnel",
                     !.wsr = "tunnel", !.wsw = "tunnel",
                     !.lrd = "tunnel", !.lwr = "tunnel"])
    /\ BeginIteration
    /\ UNCHANGED <<role, scheme, fwdVars, remaining, failures, sleeps, slept, response, remote, cur>>

\* The connector returned Ok((r, w, response)): the claim is decoded from the
\* response and the local connector is called with it.
RevConnectOk(cookie) ==
    /\ rpc = "connecting"
    /\ conns' = Append(conns,
          [Connected(NewConn("rev", reqId, iter, StaticRemote))
              EXCEPT !.pc = "local_connect",
                     !.connector = TransportFamily(scheme),
                     !.wsr = "loop", !.wsw = "loop"])
    /\ response' = cookie
    /\ remote' = DecodeRemote(cookie)
    /\ cur' = Len(conns) + 1
    /\ rpc' = "local_connect"
    /\ UNCHANGED <<role, scheme, calls, connectDest, nextId, ids, fwdVars, iter, reqId, remaining, failures, sleeps, slept>>

\* A local connector failure that backs off like a transport connector failure.
RevLocalFail_Sleeps ==
    /\ rpc = "local_connect"
    /\ conns' = [conns EXCEPT ![cur].pc = "abandoned", ![cur].ws = "closed",
                              ![cur].wsr = "none", ![cur].wsw = "none"]
    /\ cur' = 0
    /\ response' = NoResponse
    /\ remote' = None
    /\ remaining' = BackoffSecs
    /\ rpc' = "sleeping"
    /\ UNCHANGED <<role, scheme, calls, connectDest, nextId, ids, fwdVars, iter, reqId, failures, sleeps, slept>>

\* connector.connect(&remote) returned Err: the error event and `continue`;
\* the transport halves are dropped.
RevLocalFail ==
    /\ rpc = "local_connect"
    /\ conns' = [conns EXCEPT ![cur].pc = "abandoned", ![cur].ws = "closed",
                              ![cur].wsr = "none", ![cur].wsw = "none"]
    /\ cur' = 0
    /\ response' = NoResponse
    /\ remote' = None
    /\ BeginIteration
    /\ UNCHANGED <<role, scheme, fwdVars, remaining, failures, sleeps, slept>>

\* A loop that runs the session in its own task and waits for it.
RevLocalOk_AwaitsRelay ==
    /\ rpc = "local_connect"
    /\ Cardinality({c \in ConnIds : conns[c].nR2L > 0 \/ conns[c].pc = "spawned"}) < MaxSess
    /\ conns' = [conns EXCEPT ![cur].local = "open", ![cur].chans = @ + 1,
                              ![cur].tx = "tunnel", ![cur].rx = "tunnel",
                              ![cur].pc = "spawned"]
    /\ rpc' = "relaying"
    /\ UNCHANGED <<role, scheme, calls, connectDest, nextId, ids, fwdVars, iter, reqId, remaining, failures,
                   sleeps, slept, response, remote, cur>>

\* connector.connect(&remote) returned Ok: oneshot::channel(), the `tunnel`
\* future takes the halves and both channel ends, tokio::spawn(tunnel), and
\* the loop goes round.
RevLocalOk ==
    /\ rpc = "local_connect"
    /\ Cardinality({c \in ConnIds : conns[c].nR2L > 0 \/ conns[c].pc = "spawned"}) < MaxSess
    /\ conns' = [conns EXCEPT ![cur].local = "open", ![cur].chans = @ + 1,
                              ![cur].tx = "tunnel", ![cur].rx = "tunnel",
                              ![cur].wsr = "tunnel", ![cur].wsw = "tunnel",
                              ![cur].lrd = "tunnel", ![cur].lwr = "tunnel",
                              ![cur].pc = "spawned"]
    /\ cur' = 0
    /\ response' = NoResponse
    /\ remote' = None
    /\ BeginIteration
    /\ UNCHANGED <<role, scheme, fwdVars, remaining, failures, sleeps, slept>>

\* A `tunnel` future that hands the transport writer to remote->local as well.
TunnelRun_SharesWriter(k) ==
    [k EXCEPT !.tx = "l2r", !.rx = "r2l",
              !.l2r = "run", !.nL2R = @ + 1, !.lrd = "l2r", !.wsw = "r2l",
              !.r2l = "run", !.nR2L = @ + 1, !.lwr = "r2l", !.wsr = "r2l",
              !.pc = "relaying"]

\* The spawned `tunnel` future is polled: it spawns local->remote and awaits
\* remote->local.
TunnelRun(k) ==
    [k EXCEPT !.tx = "l2r", !.rx = "r2l",
              !.l2r = "run", !.nL2R = @ + 1, !.lrd = "l2r", !.wsw = "l2r",
              !.r2l = "run", !.nR2L = @ + 1, !.lwr = "r2l", !.wsr = "r2l",
              !.pc = "relaying"]

RevTunnelStart(c) ==
    /\ c \in ConnIds
    /\ conns[c].mode = "rev" /\ conns[c].pc = "spawned"
    /\ conns' = [conns EXCEPT ![c] = TunnelRun(@)]
    /\ UNCHANGED <<role, scheme, calls, connectDest, nextId, ids, fwdVars, revVars>>

\* ----------------------------------------------------------- specifications
RelayNext ==
    \E c \in ConnIds :
        \/ LocalSend(c)
        \/ LocalClose(c)
        \/ WsClose(c)
        \/ L2RStep(c)
        \/ R2LStep(c)
        \/ R2LWriteError(c)

FwdNext ==
    \/ AcceptErr
    \/ AcceptOk
    \/ AcceptEnd
    \/ \E c \in ConnIds : FwdTaskStart(c) \/ FwdConnectOk(c) \/ FwdConnectFail(c)
    \/ RelayNext

RevNext ==
    \/ RevStart
    \/ RevConnectFail
    \/ Tick
    \/ RevWake
    \/ \E cookie \in Cookies : RevConnectOk(cookie)
    \/ RevLocalFail
    \/ RevLocalOk
    \/ \E c \in ConnIds : RevTunnelStart(c)
    \/ RelayNext

\* The client runs run_tunnel or run_reverse_tunnel, with the tasks it spawns.
Next ==
    \/ role = "forward" /\ FwdNext
    \/ role = "reverse" /\ RevNext

Spec == Init /\ [][Next]_vars

\* The slots the connections of run_tunnel can take in conns.
FwdSlots == 1..MaxAccept

\* run_tunnel alone, with the connect_to_server tasks it spawns.
InitFwd == Init /\ role = "forward"

\* The runtime polls every spawned task that can make progress: a relay
\* direction that has something to do does it.
FairSpecFwd ==
    /\ InitFwd /\ [][FwdNext]_vars
    /\ \A c \in FwdSlots : WF_vars(L2RStep(c)) /\ WF_vars(R2LStep(c))

\* run_reverse_tunnel alone, with the sessions it spawns.
InitRev == Init /\ role = "reverse"

\* The transport connector call of the iteration returns, with Ok or with Err.
TransportConnectReturns ==
    RevConnectFail \/ \E cookie \in Cookies : RevConnectOk(cookie)

\* The local connector call of the iteration returns, with Ok or with Err.
LocalConnectReturns == RevLocalFail \/ RevLocalOk

\* A step of the loop's own future: the head of the loop, the return of the
\* connector call it awaits, a second of its sleep, or its wake-up.
LoopStep ==
    RevStart \/ TransportConnectReturns \/ Tick \/ RevWake \/ LocalConnectReturns

\* The runtime polls the loop's future whenever it can go on: the connector
\* call it awaits returns, and the timer of its sleep fires.
FairSpecRev == InitRev /\ [][RevNext]_vars /\ WF_vars(LoopStep)

\* ------------------------------------------------------------------ claims
RevConns == {c \in ConnIds : conns[c].mode = "rev"}
FwdConns == {c \in ConnIds : conns[c].mode = "fwd"}

\* A session the reverse loop spawned whose relay has not ended.
LiveSession(c) ==
    /\ conns[c].mode = "rev"
    /\ conns[c].pc \in {"spawned", "relaying"}

\* C1, as stated: the reverse loop has at most one live session, and it does
\* not begin a transport connect attempt while the remote->local direction of
\* a session it started has not run to completion.
C1_OneSessionAtATime ==
    /\ Cardinality({c \in RevConns : LiveSession(c)}) <= 1
    /\ rpc = "connecting" => \A c \in RevConns : ~LiveSession(c)

\* C1, amended: after a successful transport connect and local connect the
\* reverse loop spawns the session as a task of its own and goes on to the
\* next iteration without waiting for the relay: while a spawned session has
\* not ended, the loop is already in a later iteration (or at the bound).
C1_LoopDoesNotWaitForRelay ==
    \A c \in RevConns :
        LiveSession(c) => (cur # c /\ (iter > conns[c].origin \/ rpc = "halt"))

\* C1 witness: two sessions of the reverse loop relay at the same time while
\* the loop is in a third connect attempt.
C1_Witness ==
    /\ rpc = "connecting"
    /\ \E c, d \in RevConns :
          c # d /\ conns[c].r2l = "run" /\ conns[d].r2l = "run"

\* C2: an accept error never stops the forward loop: every Ok item the
\* listener has yielded, also after an error item, has been dispatched as one
\* task, and the loop has ended only if the listener's stream ended.
C2_AcceptErrorNeverStops ==
    /\ \A i \in 1..Len(accepted) :
          accepted[i] = "Ok" =>
              Cardinality({c \in FwdConns : conns[c].origin = i}) = 1
    /\ \A c \in FwdConns : accepted[conns[c].origin] = "Ok"
    /\ fpc = "done" => ended

\* C2 witness: an Ok item that followed an error item was dispatched, and the
\* loop then ended with the stream.
C2_Witness ==
    /\ accepted = <<"Err", "Ok">>
    /\ \E c \in FwdConns : conns[c].origin = 2
    /\ fpc = "done"

\* A successful transport connector call whose owner has gone past the start
\* of the relay.
Settled(c) == conns[c].ws # "none" /\ conns[c].pc \notin {"local_connect", "spawned"}

\* C3, as stated: on the session of every successful transport connector call,
\* forward or reverse, exactly one relay is started: never zero, never more.
C3_ExactlyOneRelay ==
    \A c \in ConnIds : Settled(c) => conns[c].nL2R = 1 /\ conns[c].nR2L = 1

\* C3, amended: no session ever has more than one relay; a successful connector
\* call of the forward path has exactly one; one of the reverse loop has
\* exactly one if the local connect of its iteration succeeded and none if it
\* failed (the session is abandoned); without a session there is no relay.
C3_AtMostOneRelay ==
    \A c \in ConnIds :
        /\ conns[c].nL2R <= 1 /\ conns[c].nR2L <= 1
        /\ conns[c].nL2R = conns[c].nR2L
        /\ (conns[c].mode = "fwd" /\ conns[c].ws # "none") => conns[c].nL2R = 1
        /\ (conns[c].mode = "rev" /\ conns[c].pc \in {"relaying", "returned"})
              => conns[c].nL2R = 1
        /\ conns[c].pc \in {"abandoned", "local_connect", "spawned"} => conns[c].nL2R = 0
        /\ conns[c].ws = "none" => conns[c].nL2R = 0

\* C3 witness: the reverse loop has abandoned one session without a relay and
\* runs the one relay of another.
C3_Witness ==
    \E c, d \in RevConns :
        /\ conns[c].pc = "abandoned" /\ conns[c].nL2R = 0
        /\ conns[d].pc = "relaying" /\ conns[d].nL2R = 1 /\ conns[d].nR2L = 1

\* The handshake response carries no claim that verifies: no cookie, a cookie
\* that is no string, no JWT, or a JWT signed with another key.
NoVerifiedClaim ==
    \/ response.kind \in {"absent", "opaque", "garbage"}
    \/ response.kind = "jwt" /\ response.token.sig # DecodeKey

\* The addresses that have been a working RemoteAddr: the configured one and
\* those of the claims that verify.
WorkingAddrs ==
    {StaticRemote} \cup
    { [protocol |-> t.p, host |-> Domain(t.r), port |-> t.rp] : t \in Tokens } \cup
    { ClaimToRemoteAddr(t) : t \in Tokens }

\* C4, as stated: without a verified claim the local connector is called with
\* a RemoteAddr that was working before, not with an absent destination.
C4_PreviousRemoteReused ==
    (rpc = "local_connect" /\ NoVerifiedClaim) =>
        (remote.some /\ remote.val \in WorkingAddrs)

\* C4, amended: without a verified claim the decode yields nothing and the
\* local connector is called with an absent destination (None): no RemoteAddr
\* of an earlier iteration and not the configured one.
C4_AbsentDestination ==
    (rpc = "local_connect" /\ NoVerifiedClaim) => remote = None

\* C4 witness: after an iteration whose claim verified, the local connector is
\* called for a response whose token is signed with another key.
C4_Witness ==
    /\ rpc = "local_connect" /\ iter >= 2
    /\ response.kind = "jwt" /\ response.token.sig # DecodeKey
    /\ \E c \in RevConns : c # cur /\ conns[c].pc # "abandoned"

\* C5: every transport connector failure of the reverse loop is followed by
\* one backoff sleep of one second before the next connect attempt: at every
\* connect attempt the sleeps and the seconds slept equal the failures, during
\* a sleep one failure is still to be slept off, and every iteration that is
\* over has ended in a failure or in a session, so N failures in a row are
\* N sleeps and N + 1 attempts.
C5_BackoffPerFailure ==
    /\ rpc = "sleeping" =>
          /\ sleeps = failures - 1
          /\ slept = sleeps + (1 - remaining)
          /\ iter = failures + Cardinality(RevConns)
    /\ rpc \in {"connecting", "local_connect", "halt"} =>
          /\ sleeps = failures
          /\ slept = failures
    /\ rpc = "connecting" => iter = failures + Cardinality(RevConns) + 1
    /\ rpc = "local_connect" => iter = failures + Cardinality(RevConns)

\* C5 witness: two connector failures in a row, two sleeps, and the third
\* connect attempt under way.
C5_Witness ==
    /\ rpc = "connecting" /\ failures = 2 /\ sleeps = 2 /\ slept = 2
    /\ iter = 3 /\ conns = <<>>

\* C6, as stated: connect_to_server returns success only once both relay
\* directions have terminated, and a failed transport connect starts no relay.
C6_ReturnsAfterBothDirections ==
    \A c \in FwdConns :
        /\ conns[c].pc = "returned" => conns[c].l2r = "done" /\ conns[c].r2l = "done"
        /\ conns[c].pc = "failed" => conns[c].nL2R = 0 /\ conns[c].nR2L = 0

\* C6, amended: connect_to_server returns success once the remote->local
\* direction, which it awaits, has terminated; the local->remote direction
\* was spawned as a task of its own and may still run.  A failed transport
\* connect reports failure with no channel made and no direction started.
C6_ReturnsAfterRemoteToLocal ==
    \A c \in FwdConns :
        /\ conns[c].pc = "returned" =>
              conns[c].r2l = "done" /\ conns[c].nL2R = 1 /\ conns[c].nR2L = 1
        /\ conns[c].r2l = "run" => conns[c].pc = "relaying"
        /\ conns[c].pc = "failed" =>
              /\ conns[c].nL2R = 0 /\ conns[c].nR2L = 0
              /\ conns[c].chans = 0 /\ conns[c].ws = "none"
        /\ conns[c].pc \in {"spawned", "connecting"} =>
              conns[c].nL2R = 0 /\ conns[c].nR2L = 0

\* C6 witness: one connect_to_server has returned success while its
\* local->remote direction still runs, and another has failed to connect.
C6_Witness ==
    \E c, d \in FwdConns :
        /\ conns[c].pc = "returned" /\ conns[c].l2r = "run"
        /\ conns[d].pc = "failed"

\* The handshake response carries a token that verifies with the decode key.
VerifiedClaim == response.kind = "jwt" /\ response.token.sig = DecodeKey

\* C7, as stated: with a token that verifies, the destination given to the
\* local connector has the token's p, r and rp as protocol, host and port.
C7_DestinationEqualsClaim ==
    (rpc = "local_connect" /\ VerifiedClaim) =>
        remote = Some([protocol |-> response.token.p,
                       host |-> Domain(response.token.r),
                       port |-> response.token.rp])

\* C7, amended: with a token that verifies, the destination given to the local
\* connector has the token's p and rp as protocol and port, and as host what
\* the token's r parses to (a domain in lower case), or the empty domain when
\* r does not parse; {tcp, ex.com, 8080} gives RemoteAddr{tcp, ex.com, 8080}.
\* The configured RemoteAddr plays no part.
C7_DestinationFromClaim ==
    (rpc = "local_connect" /\ VerifiedClaim) =>
        /\ remote.some
        /\ remote.val.protocol = response.token.p
        /\ remote.val.port = response.token.rp
        /\ remote.val.host =
              (IF HostParse(response.token.r) = HostErr
               THEN Domain(<<>>)
               ELSE Domain([i \in 1..Len(response.token.r) |->
                               ToAsciiLower(response.token.r[i])]))
        /\ (response.token.r = <<"e", "x", ".", "c", "o", "m">> /\ response.token.p = "tcp")
              => remote = Some([protocol |-> "tcp",
                                host |-> Domain(<<"e", "x", ".", "c", "o", "m">>),
                                port |-> 8080])

\* C7 witness: the local connector is called with the destination of the
\* verified claim {tcp, ex.com, 8080}.
C7_Witness ==
    /\ rpc = "local_connect" /\ VerifiedClaim
    /\ response.token.r = <<"e", "x", ".", "c", "o", "m">>
    /\ remote = Some([protocol |-> "tcp",
                      host |-> Domain(<<"e", "x", ".", "c", "o", "m">>),
                      port |-> 8080])

\* C8: a request identity is generated once per connection attempt and never
\* reused: one for every Ok item the forward loop dispatched and one for every
\* iteration of the reverse loop, retries included; the identities of any two
\* attempts differ, and a connection carries the identity of its own attempt.
C8_FreshIdentityPerAttempt ==
    /\ \A i, j \in 1..Len(ids) : i # j => ids[i] # ids[j]
    /\ Len(ids) = Cardinality({i \in 1..Len(accepted) : accepted[i] = "Ok"}) + iter
    /\ \A c, d \in ConnIds : c # d => conns[c].id # conns[d].id
    /\ \A c \in ConnIds : \E i \in 1..Len(ids) : ids[i] = conns[c].id
    /\ \A c \in RevConns : conns[c].id = ids[conns[c].origin]
    /\ (iter > 0 /\ rpc # "init") => reqId = ids[iter]

\* C8 witness: the reverse loop is in its third attempt, after a connector
\* failure and a session, each with an identity of its own.
C8_Witness ==
    /\ rpc = "connecting" /\ iter = 3 /\ failures >= 1 /\ Len(ids) = 3
    /\ \E c \in RevConns : conns[c].id # reqId

C10_CloseSignal ==
    \A c \in ConnIds :
        /\ conns[c].chans <= 1
        /\ conns[c].nL2R > 0 => conns[c].chans = 1
        /\ conns[c].tx \in {"none", "tunnel", "l2r"}
        /\ conns[c].rx \in {"none", "tunnel", "r2l"}
        /\ conns[c].tx = "l2r" <=> conns[c].l2r = "run"
        /\ conns[c].rx = "r2l" <=> conns[c].r2l = "run"
        /\ conns[c].tx = "tunnel" <=> (conns[c].mode = "rev" /\ conns[c].pc = "spawned")
        /\ conns[c].rx = "tunnel" <=> (conns[c].mode = "rev" /\ conns[c].pc = "spawned")
        /\ conns[c].fired <= 1
        /\ conns[c].fired = 1 <=> conns[c].l2r = "done"
        /\ (conns[c].l2r = "done" /\ conns[c].ws = "open") => conns[c].lin = 0

\* C10 witness: local->remote has finished on the local stream's close and
\* fired the signal once, while remote->local, which holds the receiving end,
\* still runs.
C10_Witness ==
    \E c \in ConnIds :
        /\ conns[c].l2r = "done" /\ conns[c].fired = 1 /\ conns[c].tx = "none"
        /\ conns[c].local = "closed" /\ conns[c].ws = "open" /\ conns[c].lin = 0
        /\ conns[c].r2l = "run" /\ conns[c].rx = "r2l"

\* C11: run_tunnel returns success as soon as the listener's stream has ended:
\* whenever the stream has ended the function has returned Ok(()), whatever
\* the tasks it dispatched are doing (not started, connecting, relaying,
\* failed), and it has not returned before the stream ended.
C11_ReturnsWhenStreamEnds ==
    /\ fpc \in {"accepting", "done"}
    /\ ended <=> fpc = "done"
    /\ role = "forward" => (ended \/ ENABLED AcceptEnd)

\* C11 witness: run_tunnel has returned while one dispatched task has failed
\* its transport connect and another has not finished connecting.
C11_Witness ==
    /\ fpc = "done" /\ ended
    /\ \E c, d \in FwdConns :
          conns[c].pc = "failed" /\ conns[d].pc \in {"spawned", "connecting"}

\* C12: the reverse loop never terminates and never returns an error: it is
\* always at its head, in a connector call or in its backoff sleep (it stops
\* only where the model's bound on iterations is reached), and from every
\* reachable state, whatever has failed, it goes on to start the next
\* transport connect attempt.
C12_LoopGoesOn ==
    /\ [](rpc \in {"init", "connecting", "sleeping", "local_connect", "halt"})
    /\ [](rpc = "halt" => iter = MaxIter)
    /\ \A n \in 0..(MaxIter - 1) :
          (iter = n) ~> (iter = n + 1 /\ rpc = "connecting")

\* C12 witness: after a transport connector failure and a local connector
\* failure the loop is in a further transport connect attempt.
C12_Witness ==
    /\ rpc = "connecting" /\ iter = MaxIter /\ failures >= 1
    /\ \E c \in RevConns : conns[c].pc = "abandoned"

\* C13: the four halves of a session are never shared.  The transport reader
\* and the local write half are held by the session's remote->local direction
\* exactly while it runs, the transport writer and the local read half by its
\* local->remote direction exactly while it runs; before the relay starts
\* they are with the one task that is to start it (the connect_to_server
\* task; the reverse loop during its local connect, then the `tunnel` task),
\* and the loop holds nothing of a session once it has dispatched it.
C13_HalvesNotShared ==
    \A c \in ConnIds :
        /\ conns[c].wsr \in {"none", "loop", "task", "tunnel", "r2l"}
        /\ conns[c].lwr \in {"none", "task", "tunnel", "r2l"}
        /\ conns[c].wsw \in {"none", "loop", "task", "tunnel", "l2r"}
        /\ conns[c].lrd \in {"none", "task", "tunnel", "l2r"}
        /\ conns[c].wsr = "r2l" <=> conns[c].r2l = "run"
        /\ conns[c].lwr = "r2l" <=> conns[c].r2l = "run"
        /\ conns[c].wsw = "l2r" <=> conns[c].l2r = "run"
        /\ conns[c].lrd = "l2r" <=> conns[c].l2r = "run"
        /\ (conns[c].wsr = "loop" \/ conns[c].wsw = "loop") <=>
              (conns[c].mode = "rev" /\ conns[c].pc = "local_connect" /\ cur = c)
        /\ (conns[c].lrd = "task" \/ conns[c].lwr = "task") <=>
              (conns[c].mode = "fwd" /\ conns[c].pc \in {"spawned", "connecting"})
        /\ conns[c].wsr = "tunnel" <=> (conns[c].mode = "rev" /\ conns[c].pc = "spawned")
        /\ conns[c].wsw = "tunnel" <=> (conns[c].mode = "rev" /\ conns[c].pc = "spawned")
        /\ conns[c].lrd = "tunnel" <=> (conns[c].mode = "rev" /\ conns[c].pc = "spawned")
        /\ conns[c].lwr = "tunnel" <=> (conns[c].mode = "rev" /\ conns[c].pc = "spawned")

\* C13 witness: two sessions of the reverse loop relay at the same time, each
\* direction holding its own two halves, while the loop, which holds the
\* transport halves of a third session only, calls the local connector.
C13_Witness ==
    /\ rpc = "local_connect" /\ cur \in ConnIds /\ conns[cur].wsr = "loop"
    /\ \E c, d \in RevConns :
          /\ c # d
          /\ conns[c].wsr = "r2l" /\ conns[c].lwr = "r2l"
          /\ conns[c].wsw = "l2r" /\ conns[c].lrd = "l2r"
          /\ conns[d].wsr = "r2l" /\ conns[d].lwr = "r2l"
          /\ conns[d].wsw = "l2r" /\ conns[d].lrd = "l2r"

\* C14: when the local connector fails after a successful transport connect,
\* the reverse loop restarts at once: the step that abandons the session goes
\* straight to the next transport connect attempt (or to the model's bound)
\* with no sleep begun or counted, the abandoned session has no close signal,
\* no local stream and no relay direction, then or later, and the next attempt
\* is a new connector call with a request identity never used before.
C14_LocalFailureRestartsAtOnce ==
    /\ [][(rpc = "local_connect" /\ cur \in ConnIds /\ conns'[cur].pc = "abandoned") =>
            /\ rpc' \in {"connecting", "halt"}
            /\ rpc' = "halt" <=> iter = MaxIter
            /\ <<remaining, sleeps, slept, failures>>' = <<remaining, sleeps, slept, failures>>
            /\ conns'[cur].ws = "closed" /\ conns'[cur].local = "none"
            /\ rpc' = "connecting" =>
                  /\ iter' = iter + 1
                  /\ calls'[TransportFamily(scheme)] = calls[TransportFamily(scheme)] + 1
                  /\ reqId' # conns[cur].id
                  /\ \A i \in 1..Len(ids) : ids[i] # reqId']_vars
    /\ [](\A c \in RevConns :
            conns[c].pc = "abandoned" =>
                /\ conns[c].nL2R = 0 /\ conns[c].nR2L = 0 /\ conns[c].chans = 0
                /\ conns[c].l2r = "none" /\ conns[c].r2l = "none")

\* C14 witness: the local connector failed in the first iteration and the loop
\* is in the transport connect attempt of the second, under a new identity,
\* without having slept.
C14_Witness ==
    /\ rpc = "connecting" /\ iter = 2 /\ sleeps = 0 /\ slept = 0 /\ failures = 0
    /\ \E c \in RevConns :
          /\ conns[c].pc = "abandoned" /\ conns[c].origin = 1
          /\ conns[c].id # reqId /\ conns[c].nL2R = 0 /\ conns[c].nR2L = 0

\* C15: the forward loop never waits on a connection it dispatched: as long
\* as the listener's stream has not ended, the loop can take and dispatch the
\* next item whatever the earlier tasks are doing (bounded here by MaxAccept
\* items); every Ok item has one task, and the tasks are in the order in which
\* their items were accepted.
C15_LoopNeverWaitsOnTask ==
    /\ (role = "forward" /\ fpc = "accepting" /\ Len(accepted) < MaxAccept) =>
          ENABLED AcceptOk /\ ENABLED AcceptErr
    /\ Cardinality(FwdConns) =
          Cardinality({i \in 1..Len(accepted) : accepted[i] = "Ok"})
    /\ \A c, d \in FwdConns : c < d => conns[c].origin < conns[d].origin
    /\ \A c \in FwdConns :
          conns[c].origin \in 1..Len(accepted) /\ accepted[conns[c].origin] = "Ok"

\* C15 witness: the transport connect of the first connection is still
\* pending, and the loop, which has not ended, has dispatched a later item,
\* whose task already relays.
C15_Witness ==
    /\ fpc = "accepting"
    /\ \E c, d \in FwdConns :
          /\ c < d
          /\ conns[c].pc = "connecting"
          /\ conns[d].pc = "relaying"

\* C16: an iteration of the reverse loop goes through its phases in order.
\* The local connector is called only after the transport connector of the
\* same iteration returned Ok, with the claim decoded from its response; a
\* session is spawned only by the loop in its local connect, and a relay runs
\* only on a session with a transport stream and a local stream; the backoff
\* sleep is entered only from a transport connect that failed.
C16_PhasesInOrder ==
    /\ [](rpc = "local_connect" =>
            /\ cur \in RevConns
            /\ conns[cur].pc = "local_connect" /\ conns[cur].ws = "open"
            /\ conns[cur].origin = iter /\ conns[cur].id = reqId
            /\ response # NoResponse)
    /\ [](\A c \in RevConns :
            (conns[c].pc \in {"spawned", "relaying", "returned"}
                \/ conns[c].nL2R > 0 \/ conns[c].nR2L > 0) =>
                (conns[c].ws # "none" /\ conns[c].local # "none"))
    /\ [](rpc = "sleeping" =>
            (cur = 0 /\ failures > 0 /\ \A c \in RevConns : conns[c].origin < iter))
    /\ [][(rpc' = "local_connect" /\ rpc # "local_connect") =>
            (rpc = "connecting" /\ iter' = iter)]_vars
    /\ [][(rpc' = "sleeping" /\ rpc # "sleeping") =>
            (rpc = "connecting" /\ failures' = failures + 1 /\ conns' = conns)]_vars
    /\ [][\A c \in RevConns :
            (conns'[c].pc = "spawned" /\ conns[c].pc # "spawned") =>
                (rpc = "local_connect" /\ cur = c /\ conns[c].pc = "local_connect")]_vars
    /\ [][\A c \in RevConns :
            (conns'[c].pc = "relaying" /\ conns[c].pc # "relaying") =>
                conns[c].pc = "spawned"]_vars

\* C16 witness: an iteration failed its transport connect and slept, the next
\* connected, decoded a claim and connected locally, and its session relays.
C16_Witness ==
    /\ failures = 1 /\ sleeps = 1
    /\ \E c \in RevConns :
          /\ conns[c].origin = 2 /\ conns[c].pc = "relaying"
          /\ conns[c].ws = "open" /\ conns[c].local = "open"

\* C17: when the handshake response carries a claim that verifies and whose
\* host r cannot be parsed, the iteration is neither failed nor skipped: the
\* loop is in its local connector call, and the destination it calls it with
\* has the claim's protocol and port and the empty domain as host.
C17_UnparsableHostIsEmptyDomain ==
    (VerifiedClaim /\ HostParse(response.token.r) = HostErr) =>
        /\ rpc = "local_connect"
        /\ cur \in RevConns /\ conns[cur].pc = "local_connect"
        /\ remote = Some([protocol |-> response.token.p,
                          host |-> Domain(<<>>),
                          port |-> response.token.rp])

\* C17 witness: the local connector is called for the verified claim
\* {tcp, "ex com", 8080}, whose host has a space in it, with the destination
\* {tcp, empty domain, 8080}.
C17_Witness ==
    /\ rpc = "local_connect" /\ VerifiedClaim
    /\ response.token.r = <<"e", "x", " ", "c", "o", "m">>
    /\ remote = Some([protocol |-> "tcp", host |-> Domain(<<>>), port |-> 8080])

\* Connect attempts made so far: the connect_to_server tasks that have run
\* and the iterations of the reverse loop.
ConnectAttempts ==
    Cardinality({c \in FwdConns : conns[c].pc # "spawned"}) + iter

\* C18: every connect attempt, of connect_to_server and of the reverse loop,
\* calls one transport connector, chosen by the scheme alone: the websocket
\* connector if and only if the scheme is Ws or Wss, the HTTP/2 connector if
\* and only if it is Http or Https; the reader and writer of a session are of
\* the family of the connector that was called for it.
C18_ConnectorByScheme ==
    /\ calls.Websocket + calls.Http2 = ConnectAttempts
    /\ calls.Websocket > 0 => scheme \in {"Ws", "Wss"}
    /\ calls.Http2 > 0 => scheme \in {"Http", "Https"}
    /\ \A c \in ConnIds :
          /\ conns[c].connector = "none" <=>
                (conns[c].mode = "fwd" /\ conns[c].pc = "spawned")
          /\ conns[c].connector = "Websocket" => scheme \in {"Ws", "Wss"}
          /\ conns[c].connector = "Http2" => scheme \in {"Http", "Https"}
          /\ conns[c].connector \in {"none", "Websocket", "Http2"}
          /\ conns[c].family = "none" <=> conns[c].ws = "none"
          /\ conns[c].family # "none" => conns[c].family = conns[c].connector
          /\ (conns[c].nL2R > 0 \/ conns[c].nR2L > 0) =>
                conns[c].family = conns[c].connector

\* C18 witness: under the scheme Https the reverse loop has called the HTTP/2
\* connector three times and the websocket connector never; one call failed,
\* and a session whose reader and writer are HTTP/2 relays.
C18_Witness ==
    /\ scheme = "Https" /\ failures >= 1
    /\ calls = [Websocket |-> 0, Http2 |-> 3]
    /\ \E c \in RevConns :
          /\ conns[c].connector = "Http2" /\ conns[c].family = "Http2"
          /\ conns[c].nL2R = 1 /\ conns[c].nR2L = 1

\* C19: the reverse loop carries no destination from one iteration to the
\* next.  The RemoteAddr of every transport connector call is the configured
\* one, and so is the one a session was connected with, whatever claims were
\* decoded before; the destination the local connector is called with is what
\* the handshake response of this iteration decodes to; and outside the local
\* connect the loop holds no response and no decoded destination.
C19_NoDestinationCarriedOver ==
    /\ iter = 0 => connectDest = None
    /\ iter > 0 => connectDest = Some(StaticRemote)
    /\ \A c \in RevConns : conns[c].dest = StaticRemote
    /\ rpc = "local_connect" =>
          remote = (IF VerifiedClaim THEN Some(ClaimToRemoteAddr(response.token)) ELSE None)
    /\ rpc # "local_connect" => (remote = None /\ response = NoResponse)

\* C19 witness: the first iteration decoded the claim {tcp, ex.com, 8080} or
\* another and spawned its session; the second connected the transport with
\* the configured RemoteAddr again and, its response having no cookie, calls
\* the local connector with no destination.
C19_Witness ==
    /\ rpc = "local_connect" /\ iter = 2 /\ failures = 0
    /\ connectDest = Some(StaticRemote)
    /\ response = [kind |-> "absent"] /\ remote = None
    /\ \E c \in RevConns : conns[c].origin = 1 /\ conns[c].pc = "relaying"

\* C20: a transport connect failure of the forward path stays with its own
\* connection.  The failed connection has no close signal, no relay direction
\* and no transport stream, and its local stream is released; the step that
\* fails it changes no other connection and nothing of the loop; and every
\* other connection can go on: a task not yet run can start, a transport
\* connect in progress can succeed, and the loop can take the next item.
C20_ConnectFailureConfined ==
    /\ [](\A c \in FwdConns :
            conns[c].pc = "failed" =>
                /\ conns[c].chans = 0 /\ conns[c].tx = "none" /\ conns[c].rx = "none"
                /\ conns[c].nL2R = 0 /\ conns[c].nR2L = 0
                /\ conns[c].l2r = "none" /\ conns[c].r2l = "none"
                /\ conns[c].ws = "none" /\ conns[c].family = "none"
                /\ conns[c].local = "closed"
                /\ conns[c].lrd = "none" /\ conns[c].lwr = "none")
    /\ [][\A c \in FwdConns :
            (conns'[c].pc = "failed" /\ conns[c].pc # "failed") =>
                /\ conns[c].pc = "connecting"
                /\ Len(conns') = Len(conns)
                /\ \A d \in ConnIds \ {c} : conns'[d] = conns[d]
                /\ <<fpc, accepted, ended, nextId, ids>>' = <<fpc, accepted, ended, nextId, ids>>]_vars
    /\ []((\E c \in FwdConns : conns[c].pc = "failed") =>
            /\ \A d \in FwdConns :
                  /\ conns[d].pc = "spawned" => ENABLED FwdTaskStart(d)
                  /\ conns[d].pc = "connecting" => ENABLED FwdConnectOk(d)
            /\ (fpc = "accepting" /\ Len(accepted) < MaxAccept) => ENABLED AcceptOk)

\* C20 witness: the transport connect of the first connection failed, and the
\* second connection, dispatched by the same loop, connected and relays in
\* both directions.
C20_Witness ==
    \E c, d \in FwdConns :
        /\ c < d
        /\ conns[c].pc = "failed" /\ conns[c].chans = 0 /\ conns[c].local = "closed"
        /\ conns[d].pc = "relaying" /\ conns[d].l2r = "run" /\ conns[d].r2l = "run"

====
